---- MODULE Spec2Model ----
(***************************************************************************)
(* Model of the two scripts of iOSDevOpsAutomation:                        *)
(*   Resources/semgrep_standalone.py   (the scanner driver)                *)
(*   scripts/add_resources_to_project.py (the project.pbxproj patcher)     *)
(***************************************************************************)
EXTENDS Integers, Sequences, FiniteSets, TLC

VARIABLES
    \* ---- semgrep_standalone.py ----
    pc,            \* position of main(): start, find, scan, run, report, exited
    argv,          \* sys.argv
    cwd,           \* os.getcwd() of the process
    cwd0,          \* history: the working directory when the process started
    executables,   \* paths p with os.path.isfile(p) and os.access(p, X_OK)
    which_result,  \* outcome of subprocess.run(['which', 'semgrep'])
    semgrep_path,  \* local of run_semgrep_scan
    original_cwd,  \* local of run_semgrep_scan
    scan_result,   \* outcome of subprocess.run(cmd) (the external tool)
    result,        \* dict returned by run_semgrep_scan
    procs,         \* subprocesses started so far, in order
    report,        \* summary lines printed by main(), in order
    exit_code,     \* process exit status, NoExit while running
    \* ---- add_resources_to_project.py ----
    fs_exists,     \* os.path.exists(project_file)
    fs_content,    \* text of project.pbxproj as a sequence of lexical tokens
    io,            \* file operations performed by the last call
    ids,           \* the four uuid4() draws of the last call
    before,        \* history: fs_content before the last call
    existed,       \* history: fs_exists before the last call
    origin,        \* history: fs_content before the first call
    ret,           \* return value of the last call
    runs           \* number of calls made

scanVars == <<pc, argv, cwd, cwd0, executables, which_result, semgrep_path,
              original_cwd, scan_result, result, procs, report, exit_code>>
patchVars == <<fs_exists, fs_content, io, ids, before, existed, origin, ret, runs>>
vars == <<scanVars, patchVars>>

\* Python's None, a key that is absent from a dict, and "not yet exited"
None == "None"
Absent == "<absent>"
NoExit == "<running>"

(***************************************************************************)
(* Bounds                                                                  *)
(***************************************************************************)
MaxOut == 2     \* longest stdout and longest stderr of the external tool
MaxRuns == 2    \* calls of add_resources_to_project

(***************************************************************************)
(* semgrep_standalone.py                                                   *)
(***************************************************************************)

\* The host filesystem: two directories, a regular file and a missing path.
Dirs == {"/work", "/proj"}
TargetPaths == Dirs \cup {"/proj/App.swift", "/nowhere"}

PathExists(p) == p \in Dirs \cup {"/proj/App.swift"}

IsDir(p) == p \in Dirs

possible_paths ==
    << "/opt/homebrew/bin/semgrep", "/usr/local/bin/semgrep",
       "~/.local/bin/semgrep", "/usr/bin/semgrep" >>

\* what `which semgrep` may print
WhichStdout == {"", "\n", "/custom/bin/semgrep\n"}

Strip(s) ==
    CASE s = "" -> ""
      [] s = "\n" -> ""
      [] s = "/custom/bin/semgrep\n" -> "/custom/bin/semgrep"
      [] OTHER -> s

AllBins == {possible_paths[i] : i \in DOMAIN possible_paths} \cup {"/custom/bin/semgrep"}

WhichOutcomes ==
    [kind : {"completed"}, returncode : {0, 1}, stdout : WhichStdout]
    \cup [kind : {"TimeoutExpired", "SubprocessError", "FileNotFoundError"},
          returncode : {Absent}, stdout : {Absent}]

NoOutcome == [kind |-> "not run", returncode |-> Absent, stdout |-> Absent]

\* Output text of the external tool, as a sequence of lexical pieces; the
\* marker "results": [ is the piece "results": followed by the piece " [".
OutPieces == {"\"results\":", " [", "{}"}
Marker == << "\"results\":", " [" >>

RECURSIVE SeqsUpTo(_, _)
SeqsUpTo(S, n) ==
    IF n = 0 THEN {<<>>}
    ELSE LET shorter == SeqsUpTo(S, n - 1)
         IN  shorter \cup {Append(s, x) : s \in {t \in shorter : Len(t) = n - 1}, x \in S}

Texts == SeqsUpTo(OutPieces, MaxOut)

\* `needle in haystack` of Python, on piece sequences
Contains(haystack, needle) ==
    \E i \in 0..(Len(haystack) - Len(needle)) :
        \A k \in 1..Len(needle) : haystack[i + k] = needle[k]

ScanOutcomes ==
    [kind : {"completed"}, returncode : {0, 1, 2}, stdout : Texts, stderr : Texts]
    \cup [kind : {"TimeoutExpired", "Exception"},
          returncode : {Absent}, stdout : {<<>>}, stderr : {<<>>}]

NoScan == [kind |-> "not run", returncode |-> Absent, stdout |-> <<>>, stderr |-> <<>>]

NoResult == [success |-> FALSE, error |-> Absent, output |-> <<>>,
             command |-> Absent, return_code |-> Absent]

\* first candidate that is an executable file, 0 when there is none
FirstCandidate(ex) ==
    IF \E i \in DOMAIN possible_paths : possible_paths[i] \in ex
    THEN CHOOSE i \in DOMAIN possible_paths :
            /\ possible_paths[i] \in ex
            /\ \A j \in 1..(i - 1) : possible_paths[j] \notin ex
    ELSE 0

\* variant of WhichLookup that trusts the printed path without testing it
WhichLookupMut(ex, w) ==
    IF w.kind = "completed" /\ w.returncode = 0 /\ Strip(w.stdout) # ""
    THEN Strip(w.stdout)
    ELSE None

\* the PATH lookup of find_system_semgrep, given the outcome w of `which`
WhichLookup(ex, w) ==
    IF w.kind = "completed" /\ w.returncode = 0 /\ Strip(w.stdout) # ""
       /\ Strip(w.stdout) \in ex
    THEN Strip(w.stdout)
    ELSE None

configs == << "p/swift", "p/owasp-top-ten", "p/secrets" >>

\* cmd of run_semgrep_scan (the argv that ' '.join(cmd) renders)
Cmd(path, project_path) ==
    << path, "scan" >> \o [i \in DOMAIN configs |-> "--config=" \o configs[i]]
       \o << "--json", "--verbose", project_path >>

\* sys.argv[1] if len(sys.argv) > 1 else os.getcwd()
InstallationInstructions(av, dir) ==
    << "installation instructions", IF Len(av) > 1 THEN av[2] ELSE dir >>

ScanInit ==
    /\ pc = "start"
    /\ argv \in {<<"semgrep_standalone.py">>}
                \cup {<<"semgrep_standalone.py", p>> : p \in TargetPaths}
    /\ cwd \in Dirs
    /\ cwd0 = cwd
    /\ executables \in SUBSET AllBins
    /\ which_result = NoOutcome
    /\ semgrep_path = None
    /\ original_cwd = Absent
    /\ scan_result = NoScan
    /\ result = NoResult
    /\ procs = <<>>
    /\ report = <<>>
    /\ exit_code = NoExit
    \* the patcher is not run
    /\ fs_exists = FALSE
    /\ fs_content = <<>>
    /\ io = <<>>
    /\ ids = <<>>
    /\ before = <<>>
    /\ existed = FALSE
    /\ origin = <<>>
    /\ ret = Absent
    /\ runs = 0

\* main(): len(sys.argv) < 2
MainUsage ==
    /\ pc = "start"
    /\ Len(argv) < 2
    /\ report' = Append(report, "usage")
    /\ exit_code' = 1
    /\ pc' = "exited"
    /\ UNCHANGED <<patchVars, argv, cwd, cwd0, executables, which_result, semgrep_path,
                   original_cwd, scan_result, result, procs>>

\* main(): the project path does not exist
MainBadPath ==
    /\ pc = "start"
    /\ Len(argv) >= 2
    /\ ~PathExists(argv[2])
    /\ report' = Append(report, "path does not exist")
    /\ exit_code' = 1
    /\ pc' = "exited"
    /\ UNCHANGED <<patchVars, argv, cwd, cwd0, executables, which_result, semgrep_path,
                   original_cwd, scan_result, result, procs>>

\* variant of MainBanner that prints the banner before validating the path
MainBannerMut ==
    /\ pc = "start"
    /\ Len(argv) >= 2
    /\ report' = Append(report, "banner")
    /\ procs' = Append(procs, "date")
    /\ pc' = "find"
    /\ UNCHANGED <<patchVars, argv, cwd, cwd0, executables, which_result, semgrep_path,
                   original_cwd, scan_result, result, exit_code>>

\* main(): the banner, with os.popen('date')
MainBanner ==
    /\ pc = "start"
    /\ Len(argv) >= 2
    /\ PathExists(argv[2])
    /\ report' = Append(report, "banner")
    /\ procs' = Append(procs, "date")
    /\ pc' = "find"
    /\ UNCHANGED <<patchVars, argv, cwd, cwd0, executables, which_result, semgrep_path,
                   original_cwd, scan_result, result, exit_code>>

\* find_system_semgrep(): one of the fixed candidates is an executable file
FindCandidate ==
    /\ pc = "find"
    /\ FirstCandidate(executables) # 0
    /\ semgrep_path' = possible_paths[FirstCandidate(executables)]
    /\ pc' = "scan"
    /\ UNCHANGED <<patchVars, argv, cwd, cwd0, executables, which_result, original_cwd,
                   scan_result, result, procs, report, exit_code>>

\* find_system_semgrep(): no candidate, so `which semgrep` is run
FindWhich ==
    /\ pc = "find"
    /\ FirstCandidate(executables) = 0
    /\ \E w \in WhichOutcomes :
        /\ which_result' = w
        /\ semgrep_path' = WhichLookup(executables, w)
    /\ procs' = Append(procs, "which")
    /\ pc' = "scan"
    /\ UNCHANGED <<patchVars, argv, cwd, cwd0, executables, original_cwd, scan_result,
                   result, report, exit_code>>

\* run_semgrep_scan(): not semgrep_path
ScanNotFound ==
    /\ pc = "scan"
    /\ semgrep_path = None
    /\ result' = [success |-> FALSE, error |-> "Semgrep not found",
                  output |-> InstallationInstructions(argv, cwd),
                  command |-> None, return_code |-> Absent]
    /\ procs' = Append(procs, "date")
    /\ pc' = "report"
    /\ UNCHANGED <<patchVars, argv, cwd, cwd0, executables, which_result, semgrep_path,
                   original_cwd, scan_result, report, exit_code>>

\* run_semgrep_scan(): original_cwd = os.getcwd(); os.chdir(project_path)
ScanChdir ==
    /\ pc = "scan"
    /\ semgrep_path # None
    /\ original_cwd' = cwd
    /\ IF IsDir(argv[2])
       THEN /\ cwd' = argv[2]
            /\ pc' = "run"
            /\ UNCHANGED result
       ELSE \* os.chdir raises, caught by `except Exception`
            /\ result' = [success |-> FALSE, error |-> "chdir failed",
                          output |-> << "Error running Semgrep: ", "chdir failed" >>,
                          command |-> Cmd(semgrep_path, argv[2]),
                          return_code |-> Absent]
            /\ pc' = "report"
            /\ UNCHANGED cwd
    /\ UNCHANGED <<patchVars, argv, cwd0, executables, which_result, semgrep_path,
                   scan_result, procs, report, exit_code>>

\* variant of ScanReturn whose output drops stderr
ScanReturnMut(o, cmd) ==
    CASE o.kind = "completed" ->
            [success |-> o.returncode = 0, error |-> Absent,
             output |-> o.stdout,
             command |-> cmd, return_code |-> o.returncode]
      [] o.kind = "TimeoutExpired" ->
            [success |-> FALSE, error |-> "Scan timed out",
             output |-> << "Semgrep scan timed out after 5 minutes" >>,
             command |-> cmd, return_code |-> Absent]
      [] OTHER ->
            [success |-> FALSE, error |-> "execution fault",
             output |-> << "Error running Semgrep: ", "execution fault" >>,
             command |-> cmd, return_code |-> Absent]

\* the dict run_semgrep_scan returns for the outcome o of subprocess.run(cmd)
ScanReturn(o, cmd) ==
    CASE o.kind = "completed" ->
            [success |-> o.returncode = 0, error |-> Absent,
             output |-> o.stdout \o o.stderr,
             command |-> cmd, return_code |-> o.returncode]
      [] o.kind = "TimeoutExpired" ->
            [success |-> FALSE, error |-> "Scan timed out",
             output |-> << "Semgrep scan timed out after 5 minutes" >>,
             command |-> cmd, return_code |-> Absent]
      [] OTHER ->
            [success |-> FALSE, error |-> "execution fault",
             output |-> << "Error running Semgrep: ", "execution fault" >>,
             command |-> cmd, return_code |-> Absent]

\* the working directory when run_semgrep_scan returns after outcome o:
\* os.chdir(original_cwd) is reached only when subprocess.run returns
CwdAfterScan(o, now, saved) ==
    IF o.kind = "completed" THEN saved ELSE now

\* variant of ScanRun in which a timeout escapes as an uncaught exception
ScanRunMut ==
    /\ pc = "run"
    /\ \E o \in ScanOutcomes :
        /\ scan_result' = o
        /\ result' = ScanReturn(o, Cmd(semgrep_path, argv[2]))
        /\ cwd' = CwdAfterScan(o, cwd, original_cwd)
        /\ IF o.kind = "TimeoutExpired"
           THEN pc' = "exited" /\ exit_code' = 1
           ELSE pc' = "report" /\ UNCHANGED exit_code
    /\ procs' = Append(procs, "semgrep")
    /\ UNCHANGED <<patchVars, argv, cwd0, executables, which_result, semgrep_path,
                   original_cwd, report>>

\* run_semgrep_scan(): subprocess.run(cmd, ..., timeout=300) and what follows
ScanRun ==
    /\ pc = "run"
    /\ \E o \in ScanOutcomes :
        /\ scan_result' = o
        /\ result' = ScanReturn(o, Cmd(semgrep_path, argv[2]))
        /\ cwd' = CwdAfterScan(o, cwd, original_cwd)
    /\ procs' = Append(procs, "semgrep")
    /\ pc' = "report"
    /\ UNCHANGED <<patchVars, argv, cwd0, executables, which_result, semgrep_path,
                   original_cwd, exit_code>>
    /\ UNCHANGED report

\* the summary lines main() prints for a result
Summary(r) ==
    (IF r.command # None THEN << "command" >> ELSE <<>>)
    \o << "output" >>
    \o (IF r.success
        THEN << "completed" >>
             \o (IF Contains(r.output, Marker)
                 THEN << "issues found" >>
                 ELSE << "no issues found" >>)
        ELSE << "failed" >>
             \o (IF r.error # Absent /\ r.error = "Semgrep not found"
                 THEN << "reason" >>
                 ELSE <<>>))
    \o << "end of report" >>

\* main(): print the result and fall off the end (exit status 0)
MainReport ==
    /\ pc = "report"
    /\ report' = report \o Summary(result)
    /\ exit_code' = 0
    /\ pc' = "exited"
    /\ UNCHANGED <<patchVars, argv, cwd, cwd0, executables, which_result, semgrep_path,
                   original_cwd, scan_result, result, procs>>

ScanNext ==
    \/ MainUsage
    \/ MainBadPath
    \/ MainBanner
    \/ FindCandidate
    \/ FindWhich
    \/ ScanNotFound
    \/ ScanChdir
    \/ ScanRun
    \/ MainReport

ScanSpec == ScanInit /\ [][ScanNext]_vars

(***************************************************************************)
(* scripts/add_resources_to_project.py                                     *)
(*                                                                         *)
(* The manifest text is a sequence of lexical tokens, each on a line of    *)
(* its own with the line break and indentation Xcode writes between them   *)
(* (which is what the \s+ of the patterns consume).  A token is a record   *)
(* [t, id, ref]: t is the literal text shape, id the 24-character          *)
(* identifier it carries, ref the identifier it refers to.                 *)
(***************************************************************************)
Tok(t) == [t |-> t, id |-> "", ref |-> ""]
TokId(t, id) == [t |-> t, id |-> id, ref |-> ""]

BeginGroup == Tok("/* Begin PBXGroup section */")
EndGroup == Tok("/* End PBXGroup section */")
BeginFileRef == Tok("/* Begin PBXFileReference section */")
EndFileRef == Tok("/* End PBXFileReference section */")
BeginBuildFile == Tok("/* Begin PBXBuildFile section */")
EndBuildFile == Tok("/* End PBXBuildFile section */")
BeginPhase == Tok("/* Begin PBXResourcesBuildPhase section */")
EndPhase == Tok("/* End PBXResourcesBuildPhase section */")
MainGroupOpen == Tok("mainGroup = {")
ChildrenOpen == Tok("children = (")
FilesOpen == Tok("files = (")
ListClose == Tok(");")
BlockClose == Tok("};")
Attr == Tok("attribute;")

\* the hard-coded identifier of resources_build_phase_pattern
ResourcesPhaseId == "02DAD4482E70CC2D00BB3786"
PhaseOpen(id) == TokId("<id> /* Resources */ = { isa = PBXResourcesBuildPhase;", id)
GroupOpen(id) == TokId("<id> /* <name> */ = { isa = PBXGroup;", id)
FileRefOpen(id) == TokId("<id> /* <name> */ = { isa = PBXFileReference;", id)
BuildFileOpen(id, ref) ==
    [t |-> "<id> /* <name> */ = { isa = PBXBuildFile; fileRef = <ref>;", id |-> id, ref |-> ref]
Entry(id) == TokId("<id> /* <name> */,", id)

\* the only tokens whose text holds a closing brace
HasRBrace(tok) == tok.t = BlockClose.t

\* values str(uuid.uuid4()).replace('-', '').upper()[:24] may take; the 13th
\* character of such a value is the version digit 4, so none is ResourcesPhaseId
Uuids == {"0A1B2C3D4E5F4A6B8C7D9E0F", "F9E8D7C6B5A44B3C9D2E1F00"}

\* index of the first token after i that holds a closing brace, 0 if none
FirstBrace(m, i) ==
    IF \E j \in (i + 1)..Len(m) : HasRBrace(m[j])
    THEN CHOOSE j \in (i + 1)..Len(m) :
            HasRBrace(m[j]) /\ \A k \in (i + 1)..(j - 1) : ~HasRBrace(m[k])
    ELSE 0

\* the tokens of `need` occur in this order strictly between lo and hi
RECURSIVE InOrder(_, _, _, _)
InOrder(m, lo, hi, need) ==
    IF need = <<>> THEN TRUE
    ELSE \E a \in (lo + 1)..(hi - 1) :
            m[a] = Head(need) /\ InOrder(m, a, hi, Tail(need))

\* Where group 3 of a block pattern
\*     (<start>[^}]+<need...>\s+)([^}]+)(\s+\);[^}]+};)
\* begins when the pattern matches at token i: group 2 is greedy, so group 3
\* is the last ");" before the first closing brace.  0 when there is no match.
GroupThree(m, i, need) ==
    LET j == FirstBrace(m, i)
        closes == IF j = 0 THEN {} ELSE {c \in (i + 1)..(j - 1) : m[c] = ListClose}
    IN  IF closes = {} THEN 0
        ELSE LET c == CHOOSE x \in closes : \A y \in closes : y <= x
             IN  IF InOrder(m, i, c, need) THEN c ELSE 0

\* a part of line.split('/*') never holds '/*', so the test
\*     '/*' in line and '*/' in line and '/*' in line.split('/*')[1]
\* of add_resources_to_main_group holds of no line
IsGroupLine(tok) == FALSE

\* last_group_line of add_resources_to_main_group (0 stands for -1)
LastGroupLine(lines) ==
    IF \E i \in DOMAIN lines : IsGroupLine(lines[i])
    THEN CHOOSE i \in DOMAIN lines :
            IsGroupLine(lines[i]) /\ \A k \in DOMAIN lines : IsGroupLine(lines[k]) => k <= i
    ELSE 0

\* variant of InsertEntry that returns the list without the new entry
InsertEntryMut(lines, entry) == lines

\* the callback: lines.insert(last_group_line + 1, entry) or lines.append(entry)
InsertEntry(lines, entry) ==
    LET g == LastGroupLine(lines)
    IN  IF g > 0
        THEN SubSeq(lines, 1, g) \o <<entry>> \o SubSeq(lines, g + 1, Len(lines))
        ELSE Append(lines, entry)

\* re.sub(block pattern, callback, content, flags=re.DOTALL) from token i on
RECURSIVE ReSubBlock(_, _, _, _, _)
ReSubBlock(m, i, start, need, entry) ==
    IF i > Len(m) THEN <<>>
    ELSE LET c == IF m[i] = start THEN GroupThree(m, i, need) ELSE 0
         IN  IF c = 0
             THEN <<m[i]>> \o ReSubBlock(m, i + 1, start, need, entry)
             ELSE LET j == FirstBrace(m, i)
                  IN  InsertEntry(SubSeq(m, i, c - 1), entry)
                         \o SubSeq(m, c, j)
                         \o ReSubBlock(m, j + 1, start, need, entry)

\* re.sub(section end marker, record + marker, content)
RECURSIVE ReSubMarker(_, _, _)
ReSubMarker(m, marker, record) ==
    IF m = <<>> THEN <<>>
    ELSE (IF Head(m) = marker THEN record \o <<marker>> ELSE <<Head(m)>>)
            \o ReSubMarker(Tail(m), marker, record)

\* whether a block pattern matches anywhere (the callback runs)
BlockMatches(m, start, need) ==
    \E i \in DOMAIN m : m[i] = start /\ GroupThree(m, i, need) # 0

main_group_need == << MainGroupOpen, ChildrenOpen >>
resources_build_phase_need == << FilesOpen >>

resources_group_def(group_id, file_id) ==
    << GroupOpen(group_id), ChildrenOpen, Entry(file_id), ListClose, Attr, BlockClose >>

semgrep_file_ref(file_id) == << FileRefOpen(file_id), Attr, BlockClose >>

semgrep_build_file_ref(build_id, file_id) == << BuildFileOpen(build_id, file_id), BlockClose >>

\* the five substitutions, in the order the function applies them

Step1(m, group_id) == ReSubBlock(m, 1, BeginGroup, main_group_need, Entry(group_id))
Step2(m, group_id, file_id) == ReSubMarker(m, EndGroup, resources_group_def(group_id, file_id))
\* variant of Step3 that appends the record when the marker is missing
Step3Mut(m, file_id) ==
    IF \E i \in DOMAIN m : m[i] = EndFileRef
    THEN ReSubMarker(m, EndFileRef, semgrep_file_ref(file_id))
    ELSE m \o semgrep_file_ref(file_id)


Step3(m, file_id) == ReSubMarker(m, EndFileRef, semgrep_file_ref(file_id))
Step4(m, entry_id) ==
    ReSubBlock(m, 1, PhaseOpen(ResourcesPhaseId), resources_build_phase_need, Entry(entry_id))
Step5(m, build_id, file_id) ==
    ReSubMarker(m, EndBuildFile, semgrep_build_file_ref(build_id, file_id))

\* variant of Patched that skips a manifest an earlier run has patched
PatchedMut(m, u) ==
    IF \E i \in DOMAIN m : m[i].id \in Uuids
    THEN m
    ELSE Step5(Step4(Step3(Step2(Step1(m, u[1]), u[1], u[2]), u[2]), u[3]), u[4], u[2])

\* content written back, for the uuid4() draws u = <<group, file, entry, build>>
Patched(m, u) ==
    Step5(Step4(Step3(Step2(Step1(m, u[1]), u[1], u[2]), u[2]), u[3]), u[4], u[2])

(* Manifests the script may be run on: every combination of the five       *)
(* anchors being present or not in an otherwise Xcode-shaped manifest.     *)
Manifest(root, endGroup, endFileRef, phase, endBuildFile) ==
    << BeginBuildFile, BuildFileOpen("B1", "F1"), BlockClose >>
    \o (IF endBuildFile THEN <<EndBuildFile>> ELSE <<>>)
    \o << BeginFileRef, FileRefOpen("F1"), BlockClose >>
    \o (IF endFileRef THEN <<EndFileRef>> ELSE <<>>)
    \o << BeginGroup, IF root THEN MainGroupOpen ELSE GroupOpen("G0"),
          Attr, ChildrenOpen, Entry("G1"), ListClose, Attr, BlockClose,
          GroupOpen("G1"), ChildrenOpen, Entry("F1"), ListClose, Attr, BlockClose >>
    \o (IF endGroup THEN <<EndGroup>> ELSE <<>>)
    \o << BeginPhase, PhaseOpen(IF phase THEN ResourcesPhaseId ELSE "02DAD4482E70CC2D00BB3787"),
          Attr, FilesOpen, Entry("B1"), ListClose, Attr, BlockClose, EndPhase >>

Manifests == {Manifest(a, b, c, d, e) : a, b, c, d, e \in BOOLEAN}

PatchInit ==
    /\ fs_exists \in BOOLEAN
    /\ fs_content \in (IF fs_exists THEN Manifests ELSE {<<>>})
    /\ io = <<>>
    /\ ids = <<>>
    /\ before = fs_content
    /\ existed = fs_exists
    /\ origin = fs_content
    /\ ret = Absent
    /\ runs = 0
    \* the scanner is not run
    /\ pc = "exited"
    /\ argv = <<"semgrep_standalone.py">>
    /\ cwd = "/work"
    /\ cwd0 = "/work"
    /\ executables = {}
    /\ which_result = NoOutcome
    /\ semgrep_path = None
    /\ original_cwd = Absent
    /\ scan_result = NoScan
    /\ result = NoResult
    /\ procs = <<>>
    /\ report = <<>>
    /\ exit_code = NoExit

\* variant of PatchMissing that creates the file
PatchMissingMut ==
    /\ runs < MaxRuns
    /\ ~fs_exists
    /\ io' = <<"write">>
    /\ fs_exists' = TRUE
    /\ ret' = FALSE
    /\ ids' = <<>>
    /\ before' = fs_content
    /\ existed' = fs_exists
    /\ runs' = runs + 1
    /\ UNCHANGED <<scanVars, fs_content, origin>>

\* add_resources_to_project(): the project file does not exist
PatchMissing ==
    /\ runs < MaxRuns
    /\ ~fs_exists
    /\ io' = <<>>
    /\ ret' = FALSE
    /\ ids' = <<>>
    /\ before' = fs_content
    /\ existed' = fs_exists
    /\ runs' = runs + 1
    /\ UNCHANGED <<scanVars, fs_exists, fs_content, origin>>

\* add_resources_to_project(): read, five substitutions, write back
PatchProject ==
    /\ runs < MaxRuns
    /\ fs_exists
    /\ \E group_id, file_id, entry_id, build_id \in Uuids :
        LET ran == BlockMatches(Step3(Step2(Step1(fs_content, group_id), group_id, file_id), file_id),
                                PhaseOpen(ResourcesPhaseId), resources_build_phase_need)
            u == << group_id, file_id, IF ran THEN entry_id ELSE Absent, build_id >>
        IN  /\ fs_content' = Patched(fs_content, u)
            /\ ids' = u
    /\ io' = <<"read", "write">>
    /\ ret' = TRUE
    /\ before' = fs_content
    /\ existed' = fs_exists
    /\ runs' = runs + 1
    /\ UNCHANGED <<scanVars, fs_exists, origin>>

PatchNext ==
    \/ PatchMissing
    \/ PatchProject

PatchSpec == PatchInit /\ [][PatchNext]_vars

(***************************************************************************)
(* Properties of semgrep_standalone.py, checked under ScanSpec             *)
(***************************************************************************)
Range(f) == {f[i] : i \in DOMAIN f}

\* run_semgrep_scan has returned to main()
ScanReturned == pc = "report" \/ (pc = "exited" /\ exit_code = 0)

TargetGiven == Len(argv) >= 2
TargetMissing == TargetGiven /\ argv[2] \notin {"/work", "/proj", "/proj/App.swift"}
TargetValid == TargetGiven /\ argv[2] \in {"/work", "/proj", "/proj/App.swift"}

\* C1: on every exit path of run_semgrep_scan (completion, timeout, other
\* fault, tool not found) the working directory after the return equals the
\* working directory before the call.
C1_DirectoryRestored == ScanReturned => cwd = cwd0

\* C2: for a target path that does not exist main() exits with status 1 and
\* no subprocess (date, which, semgrep) is started at any point.
C2_MissingTargetExitsOne ==
    TargetMissing =>
        /\ procs = <<>>
        /\ pc \in {"start", "exited"}
        /\ pc = "start" => ENABLED ScanNext
        /\ pc = "exited" => exit_code = 1

C2_Witness == TargetMissing /\ pc = "exited" /\ report = << "path does not exist" >>

\* C3: for a target path that exists main() always reaches the end of the
\* report and exits with status 0, whatever the outcome of the lookup and of
\* the scan; it never stops before and never exits with another status.
C3_ValidTargetExitsZero ==
    TargetValid =>
        /\ pc # "exited" => ENABLED ScanNext
        /\ pc = "exited" =>
              /\ exit_code = 0
              /\ report # <<>>
              /\ report[Len(report)] = "end of report"

C3_Witness ==
    /\ TargetValid
    /\ pc = "exited"
    /\ scan_result.kind = "TimeoutExpired"
    /\ exit_code = 0

\* no fixed candidate is an executable file and the PATH lookup has failed
LookupFailed ==
    /\ \A i \in DOMAIN possible_paths : possible_paths[i] \notin executables
    /\ which_result.kind # "not run"
    /\ \/ which_result.kind # "completed"
       \/ which_result.returncode # 0
       \/ which_result.stdout \in {"", "\n"}
       \/ Strip(which_result.stdout) \notin executables

\* C4: when no candidate is an executable file and the PATH lookup fails,
\* run_semgrep_scan returns success = false with the installation
\* instructions as output and no command, leaves the working directory alone
\* and never starts the scan process.
C4_NotFoundResult ==
    LookupFailed =>
        /\ pc \in {"scan", "report", "exited"}
        /\ cwd = cwd0
        /\ original_cwd = Absent
        /\ "semgrep" \notin Range(procs)
        /\ scan_result.kind = "not run"
        /\ pc # "scan" =>
              /\ result.success = FALSE
              /\ result.error = "Semgrep not found"
              /\ result.output # <<>>
              /\ result.output[1] = "installation instructions"
              /\ result.command = None

C4_Witness ==
    /\ LookupFailed
    /\ which_result.kind = "completed"
    /\ which_result.returncode = 0
    /\ which_result.stdout = "/custom/bin/semgrep\n"
    /\ pc = "report"

Issues == "issues found" \in Range(report)
NoIssues == "no issues found" \in Range(report)
ToolExitedZero == scan_result.kind = "completed" /\ scan_result.returncode = 0

\* C5: once main() has printed its report: if the tool exited with code 0 the
\* driver reports "issues found" exactly when stdout followed by stderr holds
\* the results-array marker and "no issues found" exactly when it does not;
\* when the result is not a success it reports neither.
C5_SummaryClassification ==
    pc = "exited" =>
        /\ ToolExitedZero =>
              /\ Issues <=> Contains(scan_result.stdout \o scan_result.stderr, Marker)
              /\ NoIssues <=> ~Contains(scan_result.stdout \o scan_result.stderr, Marker)
        /\ ~ToolExitedZero => ~Issues /\ ~NoIssues
        /\ ~result.success => ~Issues /\ ~NoIssues

C5_Witness ==
    /\ pc = "exited"
    /\ ToolExitedZero
    /\ scan_result.stdout = << "\"results\":" >>
    /\ scan_result.stderr = << " [" >>
    /\ Issues

(***************************************************************************)
(* Properties of add_resources_to_project.py, checked under PatchSpec      *)
(***************************************************************************)
BeginMarkers == {BeginBuildFile, BeginFileRef, BeginGroup, BeginPhase}

\* least element of a set of indices, 0 for the empty set
Least(S) == IF S = {} THEN 0 ELSE CHOOSE x \in S : \A y \in S : x <= y

\* the indices of the section that begins with the marker b: from b up to
\* the next section's Begin marker
SectionIdx(m, b) ==
    LET s == Least({i \in DOMAIN m : m[i] = b})
        e == Least({i \in (s + 1)..Len(m) : m[i] \in BeginMarkers})
    IN  IF s = 0 THEN {} ELSE s..(IF e = 0 THEN Len(m) ELSE e - 1)

SectionText(m, b) ==
    LET idx == SectionIdx(m, b)
    IN  [k \in 1..Cardinality(idx) |-> m[Least(idx) + k - 1]]

\* the entries of the first list opened by `open` in the section of b
ListIdx(m, b, open) ==
    LET sec == SectionIdx(m, b)
        o == Least({i \in sec : m[i] = open})
        c == Least({i \in sec : i > o /\ m[i] = ListClose})
    IN  IF o = 0 \/ c = 0 THEN {}
        ELSE {i \in (o + 1)..(c - 1) : m[i].t = Entry("").t}

\* the records of the section of b whose opening line has the shape t
RecordIdx(m, b, t) == {i \in SectionIdx(m, b) : m[i].t = t}

RootChildren(m) == ListIdx(m, BeginGroup, ChildrenOpen)
GroupDefs(m) == RecordIdx(m, BeginGroup, GroupOpen("").t)
FileRefs(m) == RecordIdx(m, BeginFileRef, FileRefOpen("").t)
PhaseFiles(m) == ListIdx(m, BeginPhase, FilesOpen)
BuildFiles(m) == RecordIdx(m, BeginBuildFile, BuildFileOpen("", "").t)

Last(S) == CHOOSE x \in S : \A y \in S : y <= x

Has(m, tok) == \E i \in DOMAIN m : m[i] = tok
HasRoot(m) == Has(m, MainGroupOpen)
HasEndGroup(m) == Has(m, EndGroup)
HasEndFileRef(m) == Has(m, EndFileRef)
HasPhase(m) == Has(m, PhaseOpen("02DAD4482E70CC2D00BB3786"))
HasEndBuildFile(m) == Has(m, EndBuildFile)
WellFormed(m) ==
    HasRoot(m) /\ HasEndGroup(m) /\ HasEndFileRef(m) /\ HasPhase(m) /\ HasEndBuildFile(m)

Added(S, T) == Cardinality(T) - Cardinality(S)
Bit(b) == IF b THEN 1 ELSE 0

\* C6: one run on a manifest that holds all five anchors writes a manifest
\* with exactly one new entry in each of the root-group children, the group
\* definitions, the file references, the resources build-phase file list and
\* the build-file records, and nothing else.
C6_OneEntryEach ==
    (runs = 1 /\ existed /\ WellFormed(origin)) =>
        /\ ret = TRUE
        /\ fs_exists
        /\ Added(RootChildren(origin), RootChildren(fs_content)) = 1
        /\ Added(GroupDefs(origin), GroupDefs(fs_content)) = 1
        /\ Added(FileRefs(origin), FileRefs(fs_content)) = 1
        /\ Added(PhaseFiles(origin), PhaseFiles(fs_content)) = 1
        /\ Added(BuildFiles(origin), BuildFiles(fs_content)) = 1
        /\ Len(fs_content) = Len(origin) + 2 + Len(resources_group_def("", ""))
                               + Len(semgrep_file_ref("")) + Len(semgrep_build_file_ref("", ""))

C6_Witness ==
    /\ runs = 1
    /\ existed
    /\ WellFormed(origin)
    /\ Cardinality(RootChildren(fs_content)) = 2
    /\ Cardinality(PhaseFiles(fs_content)) = 2

\* C7: the patcher is not idempotent: every further run on its own output
\* adds one more entry in all five places, so after n runs each place holds
\* n added entries.
C7_NotIdempotent ==
    (existed /\ WellFormed(origin)) =>
        /\ WellFormed(fs_content)
        /\ Added(RootChildren(origin), RootChildren(fs_content)) = runs
        /\ Added(GroupDefs(origin), GroupDefs(fs_content)) = runs
        /\ Added(FileRefs(origin), FileRefs(fs_content)) = runs
        /\ Added(PhaseFiles(origin), PhaseFiles(fs_content)) = runs
        /\ Added(BuildFiles(origin), BuildFiles(fs_content)) = runs

C7_Witness ==
    /\ existed
    /\ WellFormed(origin)
    /\ runs = 2
    /\ Added(BuildFiles(origin), BuildFiles(fs_content)) = 2
    /\ Cardinality(RootChildren(fs_content)) = Cardinality(RootChildren(before)) + 1
    /\ Cardinality(RootChildren(before)) = Cardinality(RootChildren(origin)) + 1
    /\ fs_content[Last(RootChildren(fs_content))].id = ids[1]

\* C8: when the manifest file does not exist the call returns False before
\* any read or write, and no file is created.
C8_MissingManifest ==
    (runs >= 1 /\ ~existed) =>
        /\ ret = FALSE
        /\ io = <<>>
        /\ ~fs_exists
        /\ fs_content = before

C8_Witness == runs >= 1 /\ ~existed /\ ret = FALSE

\* C9: on an existing manifest each of the five insertions is applied exactly
\* when its own anchor is present and is a silent no-op otherwise; the file
\* is overwritten with the (possibly partially) patched text and the call
\* returns True, whatever subset of the anchors is present.
C9_SilentPartialPatch ==
    (runs >= 1 /\ existed) =>
        /\ ret = TRUE
        /\ io = << "read", "write" >>
        /\ Added(RootChildren(before), RootChildren(fs_content)) = Bit(HasRoot(before))
        /\ Added(GroupDefs(before), GroupDefs(fs_content)) = Bit(HasEndGroup(before))
        /\ Added(FileRefs(before), FileRefs(fs_content)) = Bit(HasEndFileRef(before))
        /\ Added(PhaseFiles(before), PhaseFiles(fs_content)) = Bit(HasPhase(before))
        /\ Added(BuildFiles(before), BuildFiles(fs_content)) = Bit(HasEndBuildFile(before))
        /\ (~HasRoot(before) /\ ~HasEndGroup(before)) =>
              SectionText(fs_content, BeginGroup) = SectionText(before, BeginGroup)
        /\ ~HasEndFileRef(before) =>
              SectionText(fs_content, BeginFileRef) = SectionText(before, BeginFileRef)
        /\ ~HasPhase(before) =>
              SectionText(fs_content, BeginPhase) = SectionText(before, BeginPhase)
        /\ ~HasEndBuildFile(before) =>
              SectionText(fs_content, BeginBuildFile) = SectionText(before, BeginBuildFile)
        /\ Len(fs_content) = Len(before)
              + Bit(HasRoot(before))
              + Bit(HasEndGroup(before)) * Len(resources_group_def("", ""))
              + Bit(HasEndFileRef(before)) * Len(semgrep_file_ref(""))
              + Bit(HasPhase(before))
              + Bit(HasEndBuildFile(before)) * Len(semgrep_build_file_ref("", ""))

C9_Witness ==
    /\ runs >= 1
    /\ existed
    /\ ret = TRUE
    /\ HasRoot(before) /\ ~HasEndGroup(before) /\ HasEndFileRef(before)
    /\ ~HasPhase(before) /\ ~HasEndBuildFile(before)
    /\ fs_content # before

\* C10: after a run on a manifest that holds all five anchors, the entry
\* appended to the resources build-phase file list carries the identifier of
\* the build-file record inserted in the build-file section, the new
\* root-group child carries the identifier of the new group definition, and
\* the group's child and the record's fileRef carry the identifier of the new
\* file reference.
C10_ReferentialIntegrity ==
    (runs >= 1 /\ existed /\ WellFormed(before)) =>
        LET m == fs_content
            record == m[Last(BuildFiles(m))]
            member == m[Last(PhaseFiles(m))]
            group == Last(GroupDefs(m))
            child == m[Last(RootChildren(m))]
            fileref == m[Last(FileRefs(m))]
        IN  /\ member.id = record.id
            /\ child.id = m[group].id
            /\ m[group + 2].id = fileref.id
            /\ record.ref = fileref.id

\* the part of C10 that does not involve the build-phase entry
C10_OtherReferences ==
    (runs >= 1 /\ existed /\ WellFormed(before)) =>
        LET m == fs_content
            record == m[Last(BuildFiles(m))]
            group == Last(GroupDefs(m))
            child == m[Last(RootChildren(m))]
            fileref == m[Last(FileRefs(m))]
        IN  /\ child.id = m[group].id
            /\ m[group + 2].id = fileref.id
            /\ record.ref = fileref.id

====
